---- MODULE Spec2Model ----
(***************************************************************************)
(* Rephrase-AI browser extension: the Page Agent (content script), the    *)
(* Background Coordinator (service worker) with the messages they          *)
(* exchange, the provider clients, the settings store and the options      *)
(* page.  Texts are sequences of one-character strings so that trimming,   *)
(* tag stripping and emptiness tests are computed, not assumed.            *)
(***************************************************************************)
EXTENDS Integers, Sequences, FiniteSets, TLC

\* ------------------------------------------------------------- bounds
\* request/response exchanges (page -> coordinator) in flight at once
MaxExch == 2
\* push-triggered operations (context menu, shortcut) in flight at once
MaxPush == 1
\* modal elements the document may hold at once
MaxModals == 2
\* messages queued from the coordinator to the tab
MaxQueue == 2

\* ------------------------------------------------------------- texts
Text_a == <<" ", "a">>
Text_o == <<"o", " ">>
Text_blank == <<" ">>
\* "<b>o\n \no ": a tag, a blank line holding a space, a trailing space
Text_md == <<"<", "b", ">", "o", "\n", " ", "\n", "o", " ">>
Text_page == <<"p">>
Empty == <<>>

\* white space (\s)
IsSpace(c) == c \in {" ", "\n"}

RECURSIVE TrimStart(_)
TrimStart(s) ==
    IF s # <<>> /\ IsSpace(Head(s)) THEN TrimStart(Tail(s)) ELSE s

RECURSIVE TrimEnd(_)
TrimEnd(s) ==
    IF s # <<>> /\ IsSpace(s[Len(s)]) THEN TrimEnd(SubSeq(s, 1, Len(s) - 1)) ELSE s

\* String.prototype.trim
Trim(s) == TrimEnd(TrimStart(s))

\* text.replace(/<[^>]*>/g, ''): a "<" with a ">" after it is removed with
\* everything up to the first such ">"
RECURSIVE StripTags(_)
StripTags(s) ==
    IF s = <<>> THEN <<>>
    ELSE IF Head(s) = "<" /\ \E i \in 2 .. Len(s) : s[i] = ">"
    THEN LET j == CHOOSE i \in 2 .. Len(s) :
                     s[i] = ">" /\ \A k \in 2 .. (i - 1) : s[k] # ">"
         IN StripTags(SubSeq(s, j + 1, Len(s)))
    ELSE <<Head(s)>> \o StripTags(Tail(s))

\* the end of the longest run of white space that starts at position i
RECURSIVE SpaceRunEnd(_, _)
SpaceRunEnd(s, i) ==
    IF i <= Len(s) /\ IsSpace(s[i]) THEN SpaceRunEnd(s, i + 1) ELSE i - 1

\* text.replace(/\n\s*\n/g, '\n\n'): a line feed followed by white space
\* that ends in a line feed (the longest such match) becomes two line feeds
RECURSIVE CollapseBlankLines(_)
CollapseBlankLines(s) ==
    IF s = <<>> THEN <<>>
    ELSE IF Head(s) = "\n"
            /\ \E i \in 2 .. SpaceRunEnd(s, 2) : s[i] = "\n"
    THEN LET j == CHOOSE i \in 2 .. SpaceRunEnd(s, 2) :
                     s[i] = "\n" /\ \A k \in (i + 1) .. SpaceRunEnd(s, 2) : s[k] # "\n"
         IN <<"\n", "\n">> \o CollapseBlankLines(SubSeq(s, j + 1, Len(s)))
    ELSE <<Head(s)>> \o CollapseBlankLines(Tail(s))

\* JavaScript truthiness of a string
Truthy(s) == s # <<>>

\* ------------------------------------------------------------- document
Ranges == {"r1", "r2"}
NoRange == "none"

\* r1 holds words, r2 holds white space only
InitialDoc == [r \in Ranges |-> IF r = "r1" THEN Text_a ELSE Text_blank]

\* what getMainPageContent can return for the page
PageContents == {Empty, Text_page}

NoSelection == [text |-> Empty, range |-> NoRange]

\* ------------------------------------------------------------- provider client
Providers == {"openai", "anthropic"}

\* what the network does with one fetch: it rejects; the status is not ok;
\* the body is not JSON; the body lacks the output list (choices / content);
\* the list is empty; its first element has no text; it has text; it has
\* white space
FetchOutcomes ==
    {"reject", "notok", "badjson", "nolist", "emptylist", "nocontent", "text", "blank"}

RawContent(outcome) ==
    CASE outcome = "text" -> Text_md
      [] outcome = "blank" -> Text_blank
      [] OTHER -> Empty

\* the object response.json() resolves with: whether it has the output list,
\* and the texts of the list's elements
Body(outcome) ==
    [hasList |-> outcome # "nolist",
     list |-> IF outcome \in {"nolist", "emptylist"} THEN <<>>
              ELSE <<RawContent(outcome)>>]

\* data.choices[0]?.message?.content / data.content[0]?.text on a body that
\* has the list (undefined reads as the empty text: both are falsy)
FirstContent(body) == IF body.list = <<>> THEN Empty ELSE body.list[1]

Failure(msg) == [success |-> FALSE, text |-> Empty, error |-> msg]
Success(t) == [success |-> TRUE, text |-> t, error |-> ""]

\* the message for a status that is not ok
ApiError(client) ==
    IF client = "openai" THEN "OpenAI API Error: 401 Unauthorized"
    ELSE "Claude API Error: 401 Unauthorized"

\* the message for a falsy output text
NoResponse(client) ==
    IF client = "openai" THEN "No response from OpenAI API"
    ELSE "No response from Claude API"

\* OpenAIClient.rephrase / ClaudeClient.rephrase (and summarize): one fetch, its
\* outcome classified; whatever is thrown inside the try (a rejected fetch, a
\* rejected response.json(), the TypeError of indexing a missing list) is
\* caught and reported as a network error
ClientCall(client, outcome) ==
    CASE outcome = "reject" -> Failure("Network error: fetch failed")
      [] outcome = "notok" -> Failure(ApiError(client))
      [] outcome = "badjson" -> Failure("Network error: Unexpected token")
      [] ~Body(outcome).hasList ->
            Failure("Network error: Cannot read properties of undefined (reading '0')")
      [] ~Truthy(FirstContent(Body(outcome))) -> Failure(NoResponse(client))
      [] OTHER -> Success(Trim(FirstContent(Body(outcome))))

\* the operations of a provider client
ClientOps == {"rephrase", "summarize", "askAI"}

\* a client that calls fetch a second time when the first call rejected
ClientFetchesRetry(op, outcome) == IF outcome = "reject" THEN 2 ELSE 1

\* the calls of fetch one invocation of a client operation makes: the single
\* await fetch(...) of its try block, on every path
ClientFetches(op, outcome) == 1

\* ... the request a client operation hands to fetch.  A text is a sequence
\* of characters; a fixed sentence of the source is one element of it.
DEFAULT_SYSTEM_PROMPT ==
    <<"You are a helpful assistant that rephrases text while maintaining the original meaning. Provide only the rephrased text without additional commentary.">>

DEFAULT_SUMMARY_PROMPT ==
    <<"You are a helpful assistant that creates brief, clear summaries. Summarize the following text in a concise manner with proper headings and paragraphs where appropriate.">>

RephrasePrefix == <<"Please rephrase the following text: ">>

SummaryPrefix == <<"Please summarize the following text: ">>

Text_prompt == <<"c">>

\* the settings a client operation reads to build its request
PromptSettings ==
    [provider : Providers, customPrompt : {Empty, Text_blank, Text_prompt},
     customSummaryPrompt : {Empty, Text_prompt}]

\* settings.customPrompt / settings.customSummaryPrompt of the operation
CustomPromptOf(op, settings) ==
    IF op = "rephrase" THEN settings.customPrompt ELSE settings.customSummaryPrompt

DefaultPromptOf(op) ==
    IF op = "rephrase" THEN DEFAULT_SYSTEM_PROMPT ELSE DEFAULT_SUMMARY_PROMPT

PrefixOf(op) == IF op = "rephrase" THEN RephrasePrefix ELSE SummaryPrefix

\* const prompt = settings.customPrompt || DEFAULT_SYSTEM_PROMPT
PromptOf(op, settings) ==
    IF Truthy(CustomPromptOf(op, settings)) THEN CustomPromptOf(op, settings)
    ELSE DefaultPromptOf(op)

\* a client that puts the prefix before the input whatever is configured
PromptedTextAlwaysPrefixed(op, text, settings) == PrefixOf(op) \o text

\* settings.customPrompt ? text : `Please rephrase the following text: ${text}`
PromptedText(op, text, settings) ==
    IF Truthy(CustomPromptOf(op, settings)) THEN text ELSE PrefixOf(op) \o text

\* the messages of the request body: the OpenAI client sends the prompt as a
\* system message and the text as the user message, the Claude client one
\* user message `${prompt}\n\n...`
BuildRequest(client, op, text, settings) ==
    IF client = "openai"
    THEN <<[role |-> "system", content |-> PromptOf(op, settings)],
           [role |-> "user", content |-> PromptedText(op, text, settings)]>>
    ELSE <<[role |-> "user",
            content |-> PromptOf(op, settings) \o <<"\n", "\n">>
                        \o PromptedText(op, text, settings)]>>

\* a factory that keeps the client it built first (here: the Claude client)
CreateClientCached(provider) == "anthropic"

\* APIClientFactory.create
CreateClient(provider) == IF provider = "openai" THEN "openai" ELSE "anthropic"

\* ------------------------------------------------------------- settings store
\* Settings are a provider tag and the credential of that provider (the
\* other fields do not influence control flow).
DefaultProvider == "anthropic"
\* defaultSettings.openaiApiKey / claudeApiKey
DefaultApiKey == Empty
Text_key == <<"k">>
ApiKeys == {Empty, Text_key}
\* nothing persisted under 'settings'.  A persisted object may lack the
\* provider field (provider "unset"); the credential it holds is then that of
\* the default provider.
Unset == [provider |-> "unset", apiKey |-> Empty]

\* StorageService.getSettings: defaults merged with what is persisted
MergedProvider(st) == IF st.provider = "unset" THEN DefaultProvider ELSE st.provider

\* ... the credential of the active provider in the merged settings
MergedApiKey(st) == IF st = Unset THEN DefaultApiKey ELSE st.apiKey

\* a merge in which the defaults overwrite what is persisted
MergedSettingsDefaultsWin(st) == [provider |-> DefaultProvider, apiKey |-> DefaultApiKey]

\* ... the object getSettings resolves with: {...defaultSettings, ...settings}
MergedSettings(st) == [provider |-> MergedProvider(st), apiKey |-> MergedApiKey(st)]

\* ------------------------------------------------------------- options page
Text_model == <<"m">>

\* StorageService.defaultSettings, as the configuration the options page
\* works with
DefaultConfig ==
    [provider |-> DefaultProvider, openaiApiKey |-> DefaultApiKey,
     claudeApiKey |-> DefaultApiKey, openaiModel |-> Text_model,
     claudeModel |-> Text_model]

\* the credential and the model validateSettings looks at for a provider
ActiveKey(c) == IF c.provider = "openai" THEN c.openaiApiKey ELSE c.claudeApiKey

ActiveModel(c) == IF c.provider = "openai" THEN c.openaiModel ELSE c.claudeModel

KeyRequired(provider) ==
    IF provider = "openai"
    THEN "OpenAI API key is required when OpenAI provider is selected"
    ELSE "Claude API key is required when Anthropic provider is selected"

ModelRequired(provider) ==
    IF provider = "openai" THEN "OpenAI model is required" ELSE "Claude model is required"

\* errors.push(msg) when cond holds
PushIf(cond, msg) == IF cond THEN <<msg>> ELSE <<>>

\* a validation that tests the credential without trimming it
validateSettingsNoTrim(settings) ==
    LET errors ==
           PushIf(settings.provider \in Providers /\ ~Truthy(ActiveKey(settings)),
                  KeyRequired(settings.provider))
           \o PushIf(settings.provider \in Providers
                     /\ ~Truthy(Trim(ActiveModel(settings))),
                     ModelRequired(settings.provider))
           \o PushIf(settings.provider \notin Providers, "Invalid provider selected")
    IN [isValid |-> errors = <<>>, errors |-> errors]

\* StorageService.validateSettings
validateSettings(settings) ==
    LET errors ==
           PushIf(settings.provider = "openai" /\ ~Truthy(Trim(settings.openaiApiKey)),
                  KeyRequired("openai"))
           \o PushIf(settings.provider = "anthropic"
                     /\ ~Truthy(Trim(settings.claudeApiKey)),
                     KeyRequired("anthropic"))
           \o PushIf(settings.provider = "openai" /\ ~Truthy(Trim(settings.openaiModel)),
                     ModelRequired("openai"))
           \o PushIf(settings.provider = "anthropic"
                     /\ ~Truthy(Trim(settings.claudeModel)),
                     ModelRequired("anthropic"))
           \o PushIf(settings.provider \notin {"openai", "anthropic"},
                     "Invalid provider selected")
    IN [isValid |-> Len(errors) = 0, errors |-> errors]

\* a || b on texts
OrElse(a, b) == IF Truthy(a) THEN a ELSE b

\* OptionsController.getFormData: each field is the form's value, else that of
\* this.settings, else the default
getFormData(form, settings) ==
    [provider |-> IF form.provider # "" THEN form.provider
                  ELSE IF settings.provider # "" THEN settings.provider
                  ELSE DefaultConfig.provider,
     claudeModel |-> OrElse(form.claudeModel,
                            OrElse(settings.claudeModel, DefaultConfig.claudeModel)),
     claudeApiKey |-> OrElse(form.claudeApiKey,
                             OrElse(settings.claudeApiKey, DefaultConfig.claudeApiKey)),
     openaiModel |-> OrElse(form.openaiModel,
                            OrElse(settings.openaiModel, DefaultConfig.openaiModel)),
     openaiApiKey |-> OrElse(form.openaiApiKey,
                             OrElse(settings.openaiApiKey, DefaultConfig.openaiApiKey))]

\* what the model keeps of a persisted configuration: the provider and its
\* credential
Persisted(c) == [provider |-> c.provider, apiKey |-> ActiveKey(c)]

\* the status line: hidden, or a message list of type success / error
NoStatus == [type |-> "hidden", messages |-> <<>>]

ShowStatus(messages, type) == [type |-> type, messages |-> messages]

\* the options page after initialize() with nothing persisted: the form shows
\* the default settings
InitialOptions == [form |-> DefaultConfig, settings |-> DefaultConfig, status |-> NoStatus]

\* values the user can give the form's fields
FormValues(field) ==
    CASE field = "provider" -> {"", "openai", "anthropic"}
      [] field \in {"openaiApiKey", "claudeApiKey"} -> {Empty, Text_blank, Text_key}
      [] OTHER -> {Empty, Text_blank, Text_model}

FormFields == {"provider", "openaiApiKey", "claudeApiKey", "openaiModel", "claudeModel"}

\* configurations validateSettings may be called with
Configs ==
    [provider : {"openai", "anthropic", "other"},
     openaiApiKey : FormValues("openaiApiKey"), claudeApiKey : FormValues("claudeApiKey"),
     openaiModel : FormValues("openaiModel"), claudeModel : FormValues("claudeModel")]

\* ------------------------------------------------------------- state
VARIABLES
    docText,                \* the page: text of each selectable range
    liveRange,              \* window.getSelection(): the selected range, or NoRange
    currentSelection,       \* ContentScript.currentSelection (NoSelection = null)
    selectionContextMenu,   \* the floating menu: the selection it was built for
    isProcessingMenuAction, \* ContentScript.isProcessingMenuAction
    flagTimers,             \* pending setTimeout(..., 100) that reset the flag
    modals,                 \* modal elements of document.body, in document order
    escPersistent,          \* document keydown listeners of addModalEventListeners
    escOnce,                \* document keydown listeners of addSummaryModalEventListeners
    exch,                   \* runtime.sendMessage exchanges and their handlers
    push,                   \* push-triggered operations of the coordinator
    toTab,                  \* tabs.sendMessage messages not yet delivered, FIFO
    stored,                 \* chrome.storage.sync 'settings' (provider, credential)
    options,                \* the options page: its form, OptionsController.settings
                            \* and the status line
    clipboard,              \* the text on the system clipboard
    invocation              \* the running call of APIClientFactory.rephrase /
                            \* summarize: arguments, request given to fetch, result

vars == <<docText, liveRange, currentSelection, selectionContextMenu,
          isProcessingMenuAction, flagTimers, modals, escPersistent, escOnce,
          exch, push, toTab, stored, options, clipboard, invocation>>

pageVars == <<docText, liveRange, currentSelection, selectionContextMenu,
              isProcessingMenuAction, flagTimers, modals, escPersistent, escOnce>>

Kinds == {"rephrase", "summary", "askai"}

Min(a, b) == IF a < b THEN a ELSE b

\* ------------------------------------------------------------- modal elements
\* the payload of a SHOW_* / UPDATE_* message or of a local show/update call
Data(originalText, output, error, isLoading) ==
    [originalText |-> originalText, output |-> output, error |-> error,
     isLoading |-> isLoading]

SummaryUnavailable == "AI summary is not available at the moment, please try again"
ExplainUnavailable == "AI explanation is not available at the moment, please try again"

\* what a modal displays for data: Loading, else Error when data.error is
\* truthy, else Result
StateOf(data) ==
    IF data.isLoading THEN "Loading"
    ELSE IF data.error # "" THEN "Error" ELSE "Result"

\* loading templates that keep the Retry button
LoadingControlsWithRetry == {"close", "retry"}

\* the controls of the loading templates: the close button only
LoadingControls == {"close"}

\* a rephrase template that offers Accept beside an error as well
RephraseControlsAlways(data) == {"close", "accept", "retry"}

\* the buttons of the rephrase template (createModal's else branch and
\* updateModal): Retry always, Accept when data.error is falsy
RephraseControls(data) ==
    IF data.error # "" THEN {"close", "retry"} ELSE {"close", "accept", "retry"}

\* the buttons of the summary and explain templates: Retry always, Copy when
\* data.error is falsy
CopyControls(data) ==
    IF data.error # "" THEN {"close", "retry"} ELSE {"close", "copy", "retry"}

\* createModal: loading modals get the backdrop listener only, the others the
\* listeners of addModalEventListeners.  openText keeps data.originalText of
\* the call that created the element (a history field: a loading modal does
\* not display it)
createModal(data) ==
    [kind |-> "rephrase", state |-> StateOf(data),
     originalText |-> data.originalText,
     output |-> IF StateOf(data) = "Result" THEN data.output ELSE Empty,
     error |-> IF StateOf(data) = "Error" THEN data.error ELSE "",
     nBackdrop |-> 1,
     nButton |-> IF data.isLoading THEN 0 ELSE 1,
     openText |-> data.originalText,
     controls |-> IF data.isLoading THEN LoadingControls ELSE RephraseControls(data)]

\* createSummaryModal: the error text shown is fixed, whatever data.error says
createSummaryModal(data) ==
    [kind |-> "summary", state |-> StateOf(data),
     originalText |-> data.originalText,
     output |-> IF StateOf(data) = "Result" THEN data.output ELSE Empty,
     error |-> IF StateOf(data) = "Error" THEN SummaryUnavailable ELSE "",
     nBackdrop |-> 1,
     nButton |-> IF data.isLoading THEN 0 ELSE 1,
     openText |-> data.originalText,
     controls |-> IF data.isLoading THEN LoadingControls ELSE CopyControls(data)]

createAskAIModal(data) ==
    [kind |-> "askai", state |-> StateOf(data),
     originalText |-> data.originalText,
     output |-> IF StateOf(data) = "Result" THEN data.output ELSE Empty,
     error |-> IF StateOf(data) = "Error" THEN data.error ELSE "",
     nBackdrop |-> 1,
     nButton |-> IF data.isLoading THEN 0 ELSE 1,
     openText |-> data.originalText,
     controls |-> IF data.isLoading THEN LoadingControls ELSE CopyControls(data)]

\* the controls in a mounted modal's markup
Controls(m) == m.controls

\* index of the first modal of kind k in document order, 0 when there is none
\* (document.querySelector('.<k>-modal'))
RECURSIVE FirstFrom(_, _, _)
FirstFrom(ms, k, i) ==
    IF i > Len(ms) THEN 0
    ELSE IF ms[i].kind = k THEN i ELSE FirstFrom(ms, k, i + 1)

FirstIdx(ms, k) == FirstFrom(ms, k, 1)

RemoveAt(ms, i) == SubSeq(ms, 1, i - 1) \o SubSeq(ms, i + 1, Len(ms))

\* hideModal: querySelector('.rephrase-modal, .summary-modal, .ask-ai-modal')
\* finds the first modal of any kind; it is removed
hideModal(ms) == IF ms = <<>> THEN ms ELSE Tail(ms)

\* n calls of hideModal in a row (n listeners of one event)
RECURSIVE hideModalTimes(_, _)
hideModalTimes(ms, n) == IF n = 0 THEN ms ELSE hideModalTimes(hideModal(ms), n - 1)

\* showModal / showSummaryModal / showAskAIModal: hide, then append the new one
showModalElement(ms, m) == Append(hideModal(ms), m)

\* an updateModal that drops data for another text than the one the mounted
\* modal was opened for
updateModalGuarded(ms, data) ==
    LET i == FirstIdx(ms, "rephrase") IN
    IF i = 0 \/ ms[i].openText # data.originalText THEN ms
    ELSE [ms EXCEPT ![i] =
            [@ EXCEPT !.state = StateOf(data),
                      !.originalText = data.originalText,
                      !.output = IF StateOf(data) = "Result" THEN data.output ELSE Empty,
                      !.error = IF StateOf(data) = "Error" THEN data.error ELSE "",
                      !.nBackdrop = Min(@ + 1, MaxModals),
                      !.nButton = 1,
                      !.controls = RephraseControls(data)]]

\* updateModal: rewrite the first rephrase modal in place and add the
\* listeners again; nothing when no rephrase modal is mounted
updateModal(ms, data) ==
    LET i == FirstIdx(ms, "rephrase") IN
    IF i = 0 THEN ms
    ELSE [ms EXCEPT ![i] =
            [@ EXCEPT !.state = StateOf(data),
                      !.originalText = data.originalText,
                      !.output = IF StateOf(data) = "Result" THEN data.output ELSE Empty,
                      !.error = IF StateOf(data) = "Error" THEN data.error ELSE "",
                      !.nBackdrop = Min(@ + 1, MaxModals),
                      !.nButton = 1,
                      !.controls = RephraseControls(data)]]

updateSummaryModal(ms, data) ==
    LET i == FirstIdx(ms, "summary") IN
    IF i = 0 THEN ms
    ELSE [ms EXCEPT ![i] =
            [@ EXCEPT !.state = StateOf(data),
                      !.originalText = data.originalText,
                      !.output = IF StateOf(data) = "Result" THEN data.output ELSE Empty,
                      !.error = IF StateOf(data) = "Error" THEN SummaryUnavailable ELSE "",
                      !.nBackdrop = Min(@ + 1, MaxModals),
                      !.nButton = 1,
                      !.controls = CopyControls(data)]]

\* updateAskAIModal: remove the first explain modal if there is one, then
\* always append a new one; createAskAIModal has added its listeners and
\* updateAskAIModal adds them a second time
updateAskAIModal(ms, data) ==
    LET i == FirstIdx(ms, "askai")
        rest == IF i = 0 THEN ms ELSE RemoveAt(ms, i)
        m == createAskAIModal(data)
    IN Append(rest, [m EXCEPT !.nBackdrop = 2, !.nButton = m.nButton + 1])

\* document keydown listeners that addModalEventListeners leaves behind
\* (one per call, never removed)
EscAfterUpdateModal(ms, n) ==
    IF FirstIdx(ms, "rephrase") = 0 THEN n ELSE Min(n + 1, MaxModals)

\* addSummaryModalEventListeners adds one that removes itself when it fires
EscAfterUpdateSummary(ms, n) ==
    IF FirstIdx(ms, "summary") = 0 THEN n ELSE Min(n + 1, MaxModals)

\* ------------------------------------------------------------- selection
\* ContentScript.getSelection: null when there is no range or the trimmed
\* text is empty
getSelection(range, doc) ==
    IF range = NoRange THEN NoSelection
    ELSE IF ~Truthy(Trim(doc[range])) THEN NoSelection
    ELSE [text |-> Trim(doc[range]), range |-> range]

\* an answer that carries the range's text as it stands
handleGetSelectionRaw(range, doc) == IF range = NoRange THEN Empty ELSE doc[range]

\* handleGetSelection: the text of the answer, selection?.text || ''
handleGetSelection(range, doc) ==
    LET selection == getSelection(range, doc)
    IN IF selection = NoSelection THEN Empty ELSE selection.text

\* showModal's tail: keep a held selection, else capture the live one
SelectionAfterShowModal(cur, range, doc) ==
    IF cur # NoSelection THEN cur ELSE getSelection(range, doc)

\* replaceText: the range's content becomes newText
replaceText(doc, sel, newText) ==
    IF sel.range = NoRange THEN doc ELSE [doc EXCEPT ![sel.range] = newText]

\* ------------------------------------------------------------- exchanges
\* One runtime.sendMessage(message, callback) and the coordinator's handler
\* for it.  status is the handler's position ("sent": not yet dispatched);
\* timer is the page's pending setTimeout (the promise is unsettled exactly
\* while it is armed).
NoResp == [success |-> FALSE, text |-> Empty, error |-> ""]

FreeExch ==
    [status |-> "free", sender |-> "page", type |-> "", text |-> Empty,
     hasPayload |-> TRUE, setting |-> Unset, timer |-> FALSE, client |-> "",
     apiKey |-> Empty,
     resp |-> NoResp, respSettings |-> Unset, nResp |-> 0, nFetch |-> 0]

ExchIds == 1 .. MaxExch

IsFree(ex, e) == ex[e].status = "free"

NumFree(ex) == Cardinality({e \in ExchIds : IsFree(ex, e)})

\* the lowest free slot
FirstFree(ex) == CHOOSE e \in ExchIds : IsFree(ex, e) /\ \A f \in ExchIds : IsFree(ex, f) => e <= f

\* a call of the message's sendResponse
sendResponse(m, r) == [m EXCEPT !.resp = r, !.nResp = @ + 1, !.status = "done"]

\* the message types handleMessage has a case for
RecognizedTypes == {"REPHRASE_TEXT", "SUMMARIZE_TEXT", "GET_SETTINGS", "SAVE_SETTINGS"}

\* a switch without a default case: a message of another type is dropped
handleMessageNoDefault(m) ==
    CASE m.type \in {"REPHRASE_TEXT", "SUMMARIZE_TEXT", "GET_SETTINGS"} ->
            [m EXCEPT !.status = "getSettings"]
      [] m.type = "SAVE_SETTINGS" -> [m EXCEPT !.status = "saveSettings"]
      [] OTHER -> [m EXCEPT !.status = "ended"]

\* BackgroundService.handleMessage up to its first await: the switch on
\* message.type
handleMessage(m) ==
    CASE m.type = "REPHRASE_TEXT" -> [m EXCEPT !.status = "getSettings"]
      [] m.type = "SUMMARIZE_TEXT" -> [m EXCEPT !.status = "getSettings"]
      [] m.type = "GET_SETTINGS" -> [m EXCEPT !.status = "getSettings"]
      [] m.type = "SAVE_SETTINGS" -> [m EXCEPT !.status = "saveSettings"]
      [] OTHER -> sendResponse(m, Failure("Unknown message type"))

\* the message a page request puts in flight; its timeout is armed
PageRequest(type, text) ==
    [FreeExch EXCEPT !.status = "sent", !.sender = "page", !.type = type,
                     !.text = text, !.timer = TRUE]

\* handleRephraseTextMessage / handleSummarizeTextMessage / handleGetSettingsMessage
\* after storageService.getSettings() resolved with the merged settings
afterSettingsResolved(m, st) ==
    CASE m.type = "GET_SETTINGS" ->
            \* sendResponse({ success: true, settings })
            [sendResponse(m, Success(Empty)) EXCEPT !.respSettings = MergedSettings(st)]
      [] ~m.hasPayload ->
            \* message.payload.text throws a TypeError inside the try
            sendResponse(m, Failure(IF m.type = "REPHRASE_TEXT"
                                    THEN "Cannot read properties of undefined"
                                    ELSE SummaryUnavailable))
      [] OTHER -> [m EXCEPT !.status = "provider",
                            !.client = CreateClient(MergedProvider(st)),
                            !.apiKey = MergedApiKey(st)]

\* a catch block that swallows the rejection: the handler ends unanswered
afterSettingsRejectedSilent(m) == [m EXCEPT !.status = "ended"]

\* ... after getSettings() rejected (chrome.runtime.lastError)
afterSettingsRejected(m) ==
    CASE m.type = "REPHRASE_TEXT" -> sendResponse(m, Failure("storage error"))
      [] m.type = "SUMMARIZE_TEXT" -> sendResponse(m, Failure(SummaryUnavailable))
      [] OTHER -> sendResponse(m, Failure("storage error"))

\* the client operation a request type invokes
ClientOp(type) == IF type = "REPHRASE_TEXT" THEN "rephrase" ELSE "summarize"

\* ... after the provider client returned its result: it is the response
afterProvider(m, outcome) ==
    sendResponse([m EXCEPT !.nFetch = @ + ClientFetches(ClientOp(m.type), outcome)],
                 ClientCall(m.client, outcome))

\* the handler of a "sent" message run to its end along path
HandlerRun(m, st, path) ==
    LET m1 == handleMessage(m) IN
    IF m1.status # "getSettings" THEN m1
    ELSE IF path = "settingsReject" THEN afterSettingsRejected(m1)
    ELSE LET m2 == afterSettingsResolved(m1, st) IN
         IF m2.status # "provider" THEN m2 ELSE afterProvider(m2, path)

\* the page's handling of the outcome of an exchange: the data it passes to
\* updateModal / updateSummaryModal / updateAskAIModal
RephraseOutcome(text, r) ==
    IF r.success THEN Data(text, r.text, "", FALSE)
    ELSE Data(text, Empty, IF r.error # "" THEN r.error ELSE "Failed to rephrase text",
              FALSE)

SummaryOutcome(text, r) ==
    IF r.success THEN Data(text, r.text, "", FALSE)
    ELSE Data(text, Empty, SummaryUnavailable, FALSE)

AskAIOutcome(text, r) ==
    IF r.success THEN Data(text, r.text, "", FALSE)
    ELSE Data(text, Empty, ExplainUnavailable, FALSE)

TimedOut == Failure("Request timed out. Please try again.")

KindOfType(type) ==
    CASE type = "REPHRASE_TEXT" -> "rephrase"
      [] type = "SUMMARIZE_TEXT" -> "summary"
      [] OTHER -> "askai"

\* modals after the outcome r of a page exchange of the given type is applied
ModalsAfterOutcome(ms, type, text, r) ==
    CASE type = "REPHRASE_TEXT" -> updateModal(ms, RephraseOutcome(text, r))
      [] type = "SUMMARIZE_TEXT" -> updateSummaryModal(ms, SummaryOutcome(text, r))
      [] OTHER -> updateAskAIModal(ms, AskAIOutcome(text, r))

EscPersistentAfterOutcome(ms, type, n) ==
    IF type = "REPHRASE_TEXT" THEN EscAfterUpdateModal(ms, n) ELSE n

EscOnceAfterOutcome(ms, type, n) ==
    IF type = "SUMMARIZE_TEXT" THEN EscAfterUpdateSummary(ms, n) ELSE n

\* ------------------------------------------------------------- push operations
\* One operation the coordinator starts on a context-menu click or a keyboard
\* shortcut.  status is its position: waiting for the tab's answer to
\* GET_SELECTION / GET_PAGE_CONTENT ("askSel", "askPage"), holding the answer
\* ("selResp", "pageResp"), or inside handleRephraseRequest /
\* handleSummaryRequest ("getSettings", "provider").
FreePush ==
    [status |-> "free", trigger |-> "", kind |-> "", text |-> Empty, client |-> "",
     apiKey |-> Empty]

PushIds == 1 .. MaxPush

HasFreePush(ps) == \E q \in PushIds : ps[q].status = "free"

FirstFreePush(ps) ==
    CHOOSE q \in PushIds : ps[q].status = "free"
                           /\ \A f \in PushIds : ps[f].status = "free" => q <= f

NoData == Data(Empty, Empty, "", FALSE)

\* a tabs.sendMessage message of operation q
Msg(type, q, data) == [type |-> type, op |-> q, data |-> data]

ShowType(kind) == IF kind = "rephrase" THEN "SHOW_MODAL" ELSE "SHOW_SUMMARY_MODAL"

UpdateType(kind) == IF kind = "rephrase" THEN "UPDATE_MODAL" ELSE "UPDATE_SUMMARY_MODAL"

\* handleRephraseRequest / handleSummaryRequest, first statement: the loading
\* SHOW
LoadingShow(q, kind, text) == Msg(ShowType(kind), q, Data(text, Empty, "", TRUE))

\* an UPDATE that does not carry the text of its operation
ResultUpdateWithoutText(q, kind, text, r) ==
    Msg(UpdateType(kind), q,
        IF r.success THEN Data(Empty, r.text, "", FALSE)
        ELSE Data(Empty, Empty,
                  IF kind = "rephrase" THEN r.error ELSE SummaryUnavailable, FALSE))

\* ... the UPDATE sent for the client's result r
ResultUpdate(q, kind, text, r) ==
    Msg(UpdateType(kind), q,
        IF r.success THEN Data(text, r.text, "", FALSE)
        ELSE Data(text, Empty,
                  IF kind = "rephrase" THEN r.error ELSE SummaryUnavailable, FALSE))

\* a catch block that leaves the modal loading
CatchUpdateLoading(q, kind, text) ==
    Msg(UpdateType(kind), q, Data(text, Empty, "", TRUE))

\* ... the UPDATE sent from the catch block (getSettings rejected)
CatchUpdate(q, kind, text) ==
    Msg(UpdateType(kind), q,
        Data(text, Empty,
             IF kind = "rephrase" THEN "storage error" ELSE SummaryUnavailable, FALSE))

\* a fallback that opens a loading modal although there is nothing to summarize
NoContentShowLoading(q) == Msg("SHOW_SUMMARY_MODAL", q, Data(Empty, Empty, "", TRUE))

\* the error SHOW sent when neither selection nor page has content; the
\* payload has no isLoading
NoContentShow(q) ==
    Msg("SHOW_SUMMARY_MODAL", q, Data(Empty, Empty, SummaryUnavailable, FALSE))

\* a handler that has read the settings before it sends the loading SHOW
StartedPushSettingsFirst(trigger, kind, text) ==
    [status |-> "provider", trigger |-> trigger, kind |-> kind, text |-> text,
     client |-> CreateClient(DefaultProvider), apiKey |-> DefaultApiKey]

\* an operation entering handleRephraseRequest / handleSummaryRequest
StartedPush(trigger, kind, text) ==
    [status |-> "getSettings", trigger |-> trigger, kind |-> kind, text |-> text,
     client |-> "", apiKey |-> Empty]

\* ------------------------------------------------------------- client invocation
\* One call of APIClientFactory.rephrase / summarize: no call yet ("idle"),
\* awaiting its fetch ("fetching"), or returned.
NoSettings == [provider |-> "", customPrompt |-> Empty, customSummaryPrompt |-> Empty]

NoInvocation ==
    [status |-> "idle", client |-> "", op |-> "", text |-> Empty,
     settings |-> NoSettings, request |-> <<>>, result |-> NoResp]

\* texts a client operation is called with
InputTexts == {Empty, Text_blank, Text_o, Text_a}

\* ------------------------------------------------------------- initial state
Init ==
    /\ docText = InitialDoc
    /\ liveRange = NoRange
    /\ currentSelection = NoSelection
    /\ selectionContextMenu = NoSelection
    /\ isProcessingMenuAction = FALSE
    /\ flagTimers = 0
    /\ modals = <<>>
    /\ escPersistent = 0
    /\ escOnce = 0
    /\ exch = [e \in ExchIds |-> FreeExch]
    /\ push = [q \in PushIds |-> FreePush]
    /\ toTab = <<>>
    /\ stored = Unset
    /\ options = InitialOptions
    /\ clipboard = Empty
    /\ invocation = NoInvocation

\* ------------------------------------------------------------- Page Agent: selection and menu
\* the user changes the live selection (mouse or keyboard)
UserSelect(r) ==
    /\ r # liveRange
    /\ liveRange' = r
    /\ UNCHANGED <<docText, currentSelection, selectionContextMenu,
                   isProcessingMenuAction, flagTimers, modals, escPersistent,
                   escOnce, exch, push, toTab, stored, options, clipboard, invocation>>

\* a selection handler that does not look at isProcessingMenuAction
HandleTextSelectionUnguarded ==
    /\ selectionContextMenu' = getSelection(liveRange, docText)
    /\ UNCHANGED <<docText, liveRange, currentSelection, isProcessingMenuAction,
                   flagTimers, modals, escPersistent, escOnce, exch, push, toTab,
                   stored, options, clipboard, invocation>>

\* handleTextSelection, run 10 ms after a mouseup or a selection keyup
HandleTextSelection ==
    /\ selectionContextMenu' =
          IF isProcessingMenuAction THEN selectionContextMenu
          ELSE getSelection(liveRange, docText)
    /\ UNCHANGED <<docText, liveRange, currentSelection, isProcessingMenuAction,
                   flagTimers, modals, escPersistent, escOnce, exch, push, toTab,
                   stored, options, clipboard, invocation>>

\* document mousedown outside the floating menu
MouseDownOutsideMenu ==
    /\ selectionContextMenu # NoSelection
    /\ selectionContextMenu' = NoSelection
    /\ UNCHANGED <<docText, liveRange, currentSelection, isProcessingMenuAction,
                   flagTimers, modals, escPersistent, escOnce, exch, push, toTab,
                   stored, options, clipboard, invocation>>

\* document keydown Escape: the menu's listener, then every modal listener
\* still registered on the document, each calling hideModal
EscapeKey ==
    /\ selectionContextMenu' = NoSelection
    /\ modals' = hideModalTimes(modals, escPersistent + escOnce)
    /\ escOnce' = 0
    /\ UNCHANGED <<docText, liveRange, currentSelection, isProcessingMenuAction,
                   flagTimers, escPersistent, exch, push, toTab, stored, options, clipboard, invocation>>

\* floating menu, Rephrase button: triggerRephrase(selection.text)
MenuRephraseClick ==
    /\ selectionContextMenu # NoSelection
    /\ NumFree(exch) >= 1
    /\ LET sel == selectionContextMenu
           e == FirstFree(exch)
       IN /\ isProcessingMenuAction' = TRUE
          /\ liveRange' = NoRange
          /\ selectionContextMenu' = NoSelection
          /\ currentSelection' = SelectionAfterShowModal(sel, NoRange, docText)
          /\ modals' = showModalElement(modals,
                          createModal(Data(sel.text, Empty, "", TRUE)))
          /\ exch' = [exch EXCEPT ![e] = PageRequest("REPHRASE_TEXT", sel.text)]
          /\ flagTimers' = flagTimers + 1
    /\ UNCHANGED <<docText, escPersistent, escOnce, push, toTab, stored, options, clipboard, invocation>>

\* floating menu, Summarize button: triggerSummarize(selection.text)
MenuSummarizeClick ==
    /\ selectionContextMenu # NoSelection
    /\ NumFree(exch) >= 1
    /\ LET sel == selectionContextMenu
           e == FirstFree(exch)
       IN /\ isProcessingMenuAction' = TRUE
          /\ liveRange' = NoRange
          /\ selectionContextMenu' = NoSelection
          /\ modals' = showModalElement(modals,
                          createSummaryModal(Data(sel.text, Empty, "", TRUE)))
          /\ exch' = [exch EXCEPT ![e] = PageRequest("SUMMARIZE_TEXT", sel.text)]
          /\ flagTimers' = flagTimers + 1
    /\ UNCHANGED <<docText, currentSelection, escPersistent, escOnce, push, toTab,
                   stored, options, clipboard, invocation>>

\* floating menu, Explain button: triggerAskAI(selection.text)
MenuAskAIClick ==
    /\ selectionContextMenu # NoSelection
    /\ NumFree(exch) >= 1
    /\ LET sel == selectionContextMenu
           e == FirstFree(exch)
       IN /\ isProcessingMenuAction' = TRUE
          /\ currentSelection' = sel
          /\ liveRange' = NoRange
          /\ selectionContextMenu' = NoSelection
          /\ modals' = showModalElement(modals,
                          createAskAIModal(Data(sel.text, Empty, "", TRUE)))
          /\ exch' = [exch EXCEPT ![e] = PageRequest("ASK_AI", sel.text)]
          /\ flagTimers' = flagTimers + 1
    /\ UNCHANGED <<docText, escPersistent, escOnce, push, toTab, stored, options, clipboard, invocation>>

\* the setTimeout(..., 100) of a menu action fires
ResetProcessingFlag ==
    /\ flagTimers > 0
    /\ flagTimers' = flagTimers - 1
    /\ isProcessingMenuAction' = FALSE
    /\ UNCHANGED <<docText, liveRange, currentSelection, selectionContextMenu,
                   modals, escPersistent, escOnce, exch, push, toTab, stored, options, clipboard, invocation>>

\* ------------------------------------------------------------- Page Agent: modal controls
\* the click listeners of modal element i run for a click whose target is
\* the element itself ("backdrop") or its content: each calls hideModal if
\* e.target === modal; the content's listener stops the propagation
ClickOnModal(ms, i, target) ==
    IF target = "backdrop" THEN hideModalTimes(ms, ms[i].nBackdrop) ELSE ms

\* click on the backdrop of modal i: every click listener of the element
\* calls hideModal
BackdropClick(i) ==
    /\ i \in 1 .. Len(modals)
    /\ modals' = ClickOnModal(modals, i, "backdrop")
    /\ UNCHANGED <<docText, liveRange, currentSelection, selectionContextMenu,
                   isProcessingMenuAction, flagTimers, escPersistent, escOnce,
                   exch, push, toTab, stored, options, clipboard, invocation>>

\* click inside the content of modal i, not on a control
BodyClick(i) ==
    /\ i \in 1 .. Len(modals)
    /\ modals' = ClickOnModal(modals, i, "content")
    /\ UNCHANGED <<docText, liveRange, currentSelection, selectionContextMenu,
                   isProcessingMenuAction, flagTimers, escPersistent, escOnce,
                   exch, push, toTab, stored, options, clipboard, invocation>>

\* click on the close button of modal i (it has a listener outside Loading)
CloseClick(i) ==
    /\ i \in 1 .. Len(modals)
    /\ modals[i].nButton >= 1
    /\ currentSelection' =
          IF modals[i].kind = "rephrase" THEN NoSelection ELSE currentSelection
    /\ modals' = hideModalTimes(modals, modals[i].nButton)
    /\ UNCHANGED <<docText, liveRange, selectionContextMenu,
                   isProcessingMenuAction, flagTimers, escPersistent, escOnce,
                   exch, push, toTab, stored, options, clipboard, invocation>>

\* the Accept listener's condition: this.currentSelection && data.rephrasedText
AcceptApplies(cur, m) == cur # NoSelection /\ Truthy(m.output)

\* the document, the held selection and the modals after the Accept listener
\* of modal m ran
AcceptDoc(doc, cur, m) ==
    IF AcceptApplies(cur, m) THEN replaceText(doc, cur, m.output) ELSE doc

AcceptSelection(cur, m) == IF AcceptApplies(cur, m) THEN NoSelection ELSE cur

AcceptModals(ms, cur, m) == IF AcceptApplies(cur, m) THEN hideModal(ms) ELSE ms

\* click on Accept (rephrase modal in Result); replaceText leaves a collapsed
\* selection behind
AcceptClick(i) ==
    /\ i \in 1 .. Len(modals)
    /\ modals[i].kind = "rephrase"
    /\ modals[i].state = "Result"
    /\ modals[i].nButton >= 1
    /\ docText' = AcceptDoc(docText, currentSelection, modals[i])
    /\ currentSelection' = AcceptSelection(currentSelection, modals[i])
    /\ modals' = AcceptModals(modals, currentSelection, modals[i])
    /\ liveRange' = IF AcceptApplies(currentSelection, modals[i]) THEN NoRange
                    ELSE liveRange
    /\ UNCHANGED <<selectionContextMenu, isProcessingMenuAction, flagTimers,
                   escPersistent, escOnce, exch, push, toTab, stored, options, clipboard, invocation>>

\* the text a Copy listener puts on the clipboard: the summary modal strips
\* the tags and, when clipboard.writeText succeeds, normalises blank lines;
\* the textarea fallback strips the tags only; the explain modal copies
\* data.explanation as it is on both paths
CopyText(kind, output, throws) ==
    IF kind = "summary"
    THEN IF throws THEN StripTags(output) ELSE CollapseBlankLines(StripTags(output))
    ELSE output

\* the clipboard after the Copy listener of modal m ran: it acts only on a
\* truthy output
CopyHandler(clip, m, throws) ==
    IF Truthy(m.output) THEN CopyText(m.kind, m.output, throws) ELSE clip

\* click on Copy (summary or explain modal in Result); navigator.clipboard
\* writes the text or throws
CopyClick(i, throws) ==
    /\ i \in 1 .. Len(modals)
    /\ "copy" \in Controls(modals[i])
    /\ modals[i].nButton >= 1
    /\ clipboard' = CopyHandler(clipboard, modals[i], throws)
    /\ UNCHANGED <<pageVars, exch, push, toTab, stored, options, invocation>>

\* the loading modal a Retry handler shows
RetryModal(kind, text) ==
    CASE kind = "rephrase" -> createModal(Data(text, Empty, "", TRUE))
      [] kind = "summary" -> createSummaryModal(Data(text, Empty, "", TRUE))
      [] OTHER -> createAskAIModal(Data(text, Empty, "", TRUE))

RetryType(kind) ==
    CASE kind = "rephrase" -> "REPHRASE_TEXT"
      [] kind = "summary" -> "SUMMARIZE_TEXT"
      [] OTHER -> "ASK_AI"

\* one Retry click listener: show the loading modal, send the request
RetryHandlerModals(ms, kind, text) == showModalElement(ms, RetryModal(kind, text))

RetryHandlerExch(ex, kind, text, e) == [ex EXCEPT ![e] = PageRequest(RetryType(kind), text)]

\* click on Retry of modal i (Result or Error): each click listener of the
\* button runs in turn
RetryClick(i) ==
    /\ i \in 1 .. Len(modals)
    /\ modals[i].state \in {"Result", "Error"}
    /\ modals[i].nButton >= 1
    /\ LET m == modals[i]
           n == m.nButton
       IN IF ~Truthy(m.originalText)
          THEN UNCHANGED <<modals, exch, currentSelection>>
          ELSE /\ NumFree(exch) >= n
               /\ LET e1 == FirstFree(exch)
                      ms1 == RetryHandlerModals(modals, m.kind, m.originalText)
                      ex1 == RetryHandlerExch(exch, m.kind, m.originalText, e1)
                  IN IF n = 1
                     THEN modals' = ms1 /\ exch' = ex1
                     ELSE LET e2 == FirstFree(ex1)
                          IN /\ modals' = RetryHandlerModals(ms1, m.kind, m.originalText)
                             /\ exch' = RetryHandlerExch(ex1, m.kind, m.originalText, e2)
               /\ currentSelection' =
                     IF m.kind = "rephrase"
                     THEN SelectionAfterShowModal(currentSelection, liveRange, docText)
                     ELSE currentSelection
    /\ UNCHANGED <<docText, liveRange, selectionContextMenu, isProcessingMenuAction,
                   flagTimers, escPersistent, escOnce, push, toTab, stored, options, clipboard, invocation>>

\* ------------------------------------------------------------- Page Agent: exchange outcomes
\* a callback whose resolve acts although the promise was rejected already
LandsAfterTimeout(m) == m.sender = "page"

\* resolve(response) in the callback of a page request settles the promise
\* only while the timeout has not rejected it
Lands(m) == m.sender = "page" /\ m.timer

\* the sendMessage callback of exchange e runs with message m answered:
\* clearTimeout, and if the promise is still unsettled the modal is updated
Callback(e, m) ==
    /\ m.status = "done"
    /\ LET lands == Lands(m)
       IN /\ modals' = IF lands THEN ModalsAfterOutcome(modals, m.type, m.text, m.resp)
                       ELSE modals
          /\ Len(modals') <= MaxModals
          /\ escPersistent' = IF lands THEN EscPersistentAfterOutcome(modals, m.type, escPersistent)
                              ELSE escPersistent
          /\ escOnce' = IF lands THEN EscOnceAfterOutcome(modals, m.type, escOnce)
                        ELSE escOnce
    /\ exch' = [exch EXCEPT ![e] = FreeExch]
    /\ UNCHANGED <<docText, liveRange, currentSelection, selectionContextMenu,
                   isProcessingMenuAction, flagTimers, push, toTab, stored, options, clipboard, invocation>>

\* the response of a finished handler reaches its sender
ResponseCallback(e) ==
    /\ exch[e].status = "done"
    /\ Callback(e, exch[e])

\* the coordinator handles a page request from dispatch to sendResponse and
\* the response reaches the page (the handler's steps touch nothing of the
\* page, so they are taken in one step here)
CoordinatorAnswers(e, path) ==
    /\ exch[e].status = "sent"
    /\ exch[e].sender = "page"
    /\ Callback(e, HandlerRun(exch[e], stored, path))

\* the page's timeout fires before the response callback ran
RequestTimeout(e) ==
    /\ exch[e].status # "free"
    /\ exch[e].sender = "page"
    /\ exch[e].timer
    /\ LET m == exch[e]
       IN /\ modals' = ModalsAfterOutcome(modals, m.type, m.text, TimedOut)
          /\ Len(modals') <= MaxModals
          /\ escPersistent' = EscPersistentAfterOutcome(modals, m.type, escPersistent)
          /\ escOnce' = EscOnceAfterOutcome(modals, m.type, escOnce)
    /\ exch' = [exch EXCEPT ![e].timer = FALSE]
    /\ UNCHANGED <<docText, liveRange, currentSelection, selectionContextMenu,
                   isProcessingMenuAction, flagTimers, push, toTab, stored, options, clipboard, invocation>>

\* ------------------------------------------------------------- Coordinator: request messages
\* another extension surface (popup, options) sends a message
ExtSend(type, hasPayload, setting, text) ==
    /\ NumFree(exch) >= 1
    /\ exch' = [exch EXCEPT ![FirstFree(exch)] =
                  [FreeExch EXCEPT !.status = "sent", !.sender = "ext",
                                   !.type = type, !.hasPayload = hasPayload,
                                   !.setting = setting, !.text = text]]
    /\ UNCHANGED <<pageVars, push, toTab, stored, options, clipboard, invocation>>

\* the runtime listener is called with the message
CoordinatorReceives(e) ==
    /\ exch[e].status = "sent"
    /\ exch' = [exch EXCEPT ![e] = handleMessage(exch[e])]
    /\ UNCHANGED <<pageVars, push, toTab, stored, options, clipboard, invocation>>

\* storageService.getSettings() resolves
SettingsResolved(e) ==
    /\ exch[e].status = "getSettings"
    /\ exch' = [exch EXCEPT ![e] = afterSettingsResolved(exch[e], stored)]
    /\ UNCHANGED <<pageVars, push, toTab, stored, options, clipboard, invocation>>

\* storageService.getSettings() rejects
SettingsRejected(e) ==
    /\ exch[e].status = "getSettings"
    /\ exch' = [exch EXCEPT ![e] = afterSettingsRejected(exch[e])]
    /\ UNCHANGED <<pageVars, push, toTab, stored, options, clipboard, invocation>>

\* the provider client's call returns
ProviderReturns(e, outcome) ==
    /\ exch[e].status = "provider"
    /\ exch' = [exch EXCEPT ![e] = afterProvider(exch[e], outcome)]
    /\ UNCHANGED <<pageVars, push, toTab, stored, options, clipboard, invocation>>

\* handleSaveSettingsMessage: storageService.saveSettings resolves
SaveResolved(e) ==
    /\ exch[e].status = "saveSettings"
    /\ stored' = exch[e].setting
    /\ exch' = [exch EXCEPT ![e] = sendResponse(exch[e], Success(Empty))]
    /\ UNCHANGED <<pageVars, push, toTab, options, clipboard, invocation>>

\* ... or rejects
SaveRejected(e) ==
    /\ exch[e].status = "saveSettings"
    /\ exch' = [exch EXCEPT ![e] = sendResponse(exch[e], Failure("storage error"))]
    /\ UNCHANGED <<pageVars, push, toTab, stored, options, clipboard, invocation>>

\* ------------------------------------------------------------- Page Agent: pushed messages
\* ContentScript.handleMessage for a SHOW_* / UPDATE_* message
PageReceive(msg) ==
    /\ selectionContextMenu' =
          IF msg.type \in {"SHOW_MODAL", "SHOW_SUMMARY_MODAL"} THEN NoSelection
          ELSE selectionContextMenu
    /\ modals' =
          CASE msg.type = "SHOW_MODAL" -> showModalElement(modals, createModal(msg.data))
            [] msg.type = "UPDATE_MODAL" -> updateModal(modals, msg.data)
            [] msg.type = "SHOW_SUMMARY_MODAL" ->
                  showModalElement(modals, createSummaryModal(msg.data))
            [] OTHER -> updateSummaryModal(modals, msg.data)
    /\ currentSelection' =
          IF msg.type = "SHOW_MODAL"
          THEN SelectionAfterShowModal(currentSelection, liveRange, docText)
          ELSE currentSelection
    /\ escPersistent' =
          CASE msg.type = "SHOW_MODAL" /\ ~msg.data.isLoading ->
                  Min(escPersistent + 1, MaxModals)
            [] msg.type = "UPDATE_MODAL" -> EscAfterUpdateModal(modals, escPersistent)
            [] OTHER -> escPersistent
    /\ escOnce' =
          CASE msg.type = "SHOW_SUMMARY_MODAL" /\ ~msg.data.isLoading ->
                  Min(escOnce + 1, MaxModals)
            [] msg.type = "UPDATE_SUMMARY_MODAL" -> EscAfterUpdateSummary(modals, escOnce)
            [] OTHER -> escOnce
    /\ UNCHANGED <<docText, liveRange, isProcessingMenuAction, flagTimers>>

\* the oldest tabs.sendMessage message reaches the content script;
\* GET_SELECTION and GET_PAGE_CONTENT are answered at once
DeliverToTab ==
    /\ toTab # <<>>
    /\ toTab' = Tail(toTab)
    /\ LET msg == Head(toTab) IN
       CASE msg.type = "GET_SELECTION" ->
              /\ push' = [push EXCEPT ![msg.op].status = "selResp",
                                      ![msg.op].text = handleGetSelection(liveRange, docText)]
              /\ UNCHANGED pageVars
         [] msg.type = "GET_PAGE_CONTENT" ->
              /\ \E c \in PageContents :
                    push' = [push EXCEPT ![msg.op].status = "pageResp",
                                         ![msg.op].text = c]
              /\ UNCHANGED pageVars
         [] OTHER -> PageReceive(msg) /\ UNCHANGED push
    /\ UNCHANGED <<exch, stored, options, clipboard, invocation>>

\* ------------------------------------------------------------- Coordinator: push operations
\* contextMenus.onClicked, 'rephrase-text': info.selectionText is the live
\* selection's text
ContextMenuRephrase ==
    /\ liveRange # NoRange
    /\ Truthy(docText[liveRange])
    /\ HasFreePush(push)
    /\ Len(toTab) < MaxQueue
    /\ LET q == FirstFreePush(push)
           text == docText[liveRange]
       IN /\ push' = [push EXCEPT ![q] = StartedPush("menuRephrase", "rephrase", text)]
          /\ toTab' = Append(toTab, LoadingShow(q, "rephrase", text))
    /\ UNCHANGED <<pageVars, exch, stored, options, clipboard, invocation>>

\* contextMenus.onClicked, 'summarize-page': handlePageSummarizeRequest
ContextMenuSummarizePage ==
    /\ HasFreePush(push)
    /\ Len(toTab) < MaxQueue
    /\ LET q == FirstFreePush(push)
       IN /\ push' = [push EXCEPT ![q] = [FreePush EXCEPT !.status = "askPage",
                                                          !.trigger = "menuPage",
                                                          !.kind = "summary"]]
          /\ toTab' = Append(toTab, Msg("GET_PAGE_CONTENT", q, NoData))
    /\ UNCHANGED <<pageVars, exch, stored, options, clipboard, invocation>>

\* what getActiveTab()'s query may resolve with: a tab, or none
ActiveTabs == {"tab", "none"}

\* handleRephraseKeyboardShortcut / handleSummarizeKeyboardShortcut up to the
\* GET_SELECTION they send; they return at once when there is no active tab
Shortcut(kind, tab) ==
    IF tab = "none" THEN UNCHANGED vars
    ELSE /\ HasFreePush(push)
         /\ Len(toTab) < MaxQueue
         /\ LET q == FirstFreePush(push)
            IN /\ push' = [push EXCEPT ![q] = [FreePush EXCEPT !.status = "askSel",
                                                               !.trigger = "shortcut",
                                                               !.kind = kind]]
               /\ toTab' = Append(toTab, Msg("GET_SELECTION", q, NoData))
         /\ UNCHANGED <<pageVars, exch, stored, options, clipboard, invocation>>

\* a callback that does not test the response
HasReportedSelectionAlways(text) == TRUE

\* the rephrase shortcut's test of the GET_SELECTION response: response?.text
HasReportedSelection(text) == Truthy(text)

\* the GET_SELECTION callback
SelectionCallback(q) ==
    /\ push[q].status = "selResp"
    /\ LET p == push[q] IN
       IF p.kind = "rephrase"
       THEN IF HasReportedSelection(p.text)
            THEN /\ Len(toTab) < MaxQueue
                 /\ push' = [push EXCEPT ![q] = StartedPush(p.trigger, "rephrase", p.text)]
                 /\ toTab' = Append(toTab, LoadingShow(q, "rephrase", p.text))
            ELSE /\ push' = [push EXCEPT ![q] = FreePush]
                 /\ UNCHANGED toTab
       ELSE /\ Len(toTab) < MaxQueue
            /\ IF ~Truthy(Trim(p.text))
               THEN /\ push' = [push EXCEPT ![q].status = "askPage", ![q].text = Empty]
                    /\ toTab' = Append(toTab, Msg("GET_PAGE_CONTENT", q, NoData))
               ELSE /\ push' = [push EXCEPT ![q] = StartedPush(p.trigger, "summary", p.text)]
                    /\ toTab' = Append(toTab, LoadingShow(q, "summary", p.text))
    /\ UNCHANGED <<pageVars, exch, stored, options, clipboard, invocation>>

\* the GET_PAGE_CONTENT callback
PageContentCallback(q) ==
    /\ push[q].status = "pageResp"
    /\ Len(toTab) < MaxQueue
    /\ LET p == push[q] IN
       IF Truthy(Trim(p.text))
       THEN /\ push' = [push EXCEPT ![q] = StartedPush(p.trigger, "summary", p.text)]
            /\ toTab' = Append(toTab, LoadingShow(q, "summary", p.text))
       ELSE /\ push' = [push EXCEPT ![q] = FreePush]
            /\ toTab' = Append(toTab, NoContentShow(q))
    /\ UNCHANGED <<pageVars, exch, stored, options, clipboard, invocation>>

\* handleRephraseRequest / handleSummaryRequest: getSettings() resolves
PushSettingsResolved(q) ==
    /\ push[q].status = "getSettings"
    /\ push' = [push EXCEPT ![q].status = "provider",
                            ![q].client = CreateClient(MergedProvider(stored)),
                            ![q].apiKey = MergedApiKey(stored)]
    /\ UNCHANGED <<pageVars, exch, toTab, stored, options, clipboard, invocation>>

\* ... getSettings() rejects: the catch block sends the UPDATE
PushSettingsRejected(q) ==
    /\ push[q].status = "getSettings"
    /\ Len(toTab) < MaxQueue
    /\ toTab' = Append(toTab, CatchUpdate(q, push[q].kind, push[q].text))
    /\ push' = [push EXCEPT ![q] = FreePush]
    /\ UNCHANGED <<pageVars, exch, stored, options, clipboard, invocation>>

\* ... the provider client's call returns: the UPDATE for its result
PushProviderReturns(q, outcome) ==
    /\ push[q].status = "provider"
    /\ Len(toTab) < MaxQueue
    /\ toTab' = Append(toTab, ResultUpdate(q, push[q].kind, push[q].text,
                                           ClientCall(push[q].client, outcome)))
    /\ push' = [push EXCEPT ![q] = FreePush]
    /\ UNCHANGED <<pageVars, exch, stored, options, clipboard, invocation>>

\* ------------------------------------------------------------- options page: handlers
\* the user changes a field of the form
EditForm(field, value) ==
    /\ options.form[field] # value
    /\ options' = [options EXCEPT !.form[field] = value]
    /\ UNCHANGED <<pageVars, exch, push, toTab, stored, clipboard, invocation>>

\* OptionsController.saveSettings, the click on Save: an invalid form shows
\* its errors and nothing is saved; a valid one is saved, and the outcome of
\* the storage call is shown
SaveClick(result) ==
    LET formData == getFormData(options.form, options.settings)
        validation == validateSettings(formData)
    IN /\ IF ~validation.isValid
          THEN /\ options' = [options EXCEPT !.status = ShowStatus(validation.errors, "error")]
               /\ UNCHANGED stored
          ELSE IF result = "ok"
          THEN /\ stored' = Persisted(formData)
               /\ options' = [options EXCEPT
                                 !.settings = formData,
                                 !.status = ShowStatus(<<"Settings saved successfully!">>,
                                                       "success")]
          ELSE /\ options' = [options EXCEPT
                                 !.status = ShowStatus(<<"Failed to save settings">>, "error")]
               /\ UNCHANGED stored
       /\ UNCHANGED <<pageVars, exch, push, toTab, clipboard, invocation>>

\* OptionsController.testConnection, the click on Test: an invalid form shows
\* its errors and no call is made; a valid one is tried with one rephrase call
TestClick(outcome) ==
    LET formData == getFormData(options.form, options.settings)
        validation == validateSettings(formData)
        result == ClientCall(CreateClient(formData.provider), outcome)
    IN /\ options' =
             [options EXCEPT !.status =
                 IF ~validation.isValid THEN ShowStatus(validation.errors, "error")
                 ELSE IF result.success
                 THEN ShowStatus(<<"Connection successful! API is working correctly.">>,
                                 "success")
                 ELSE ShowStatus(<<"Connection failed: ", result.error>>, "error")]
       /\ UNCHANGED <<pageVars, exch, push, toTab, stored, clipboard, invocation>>

\* showStatus' setTimeout(..., 5000) hides the status line
StatusTimeout ==
    /\ options.status # NoStatus
    /\ options' = [options EXCEPT !.status = NoStatus]
    /\ UNCHANGED <<pageVars, exch, push, toTab, stored, clipboard, invocation>>

\* ------------------------------------------------------------- provider client: one call
\* APIClientFactory.rephrase / summarize up to the await of fetch: the client
\* is created and its operation builds the request and calls fetch
Invoke(op, text, settings) ==
    /\ invocation.status # "fetching"
    /\ invocation' =
          [status |-> "fetching", client |-> CreateClient(settings.provider),
           op |-> op, text |-> text, settings |-> settings,
           request |-> BuildRequest(CreateClient(settings.provider), op, text, settings),
           result |-> NoResp]
    /\ UNCHANGED <<pageVars, exch, push, toTab, stored, options, clipboard>>

\* the fetch settles and the operation returns its result
FetchSettles(outcome) ==
    /\ invocation.status = "fetching"
    /\ invocation' = [invocation EXCEPT
                        !.status = "returned",
                        !.result = ClientCall(invocation.client, outcome)]
    /\ UNCHANGED <<pageVars, exch, push, toTab, stored, options, clipboard>>

\* ------------------------------------------------------------- specifications
\* messages the popup and the options page may send
ExtMessages ==
    {<<"GET_SETTINGS", FALSE, Unset, Empty>>, <<"REPHRASE_TEXT", FALSE, Unset, Empty>>,
     <<"SUMMARIZE_TEXT", FALSE, Unset, Empty>>, <<"ASK_AI", TRUE, Unset, Text_o>>,
     <<"PING", FALSE, Unset, Empty>>}
    \cup {<<t, TRUE, Unset, x>> : t \in {"REPHRASE_TEXT", "SUMMARIZE_TEXT"},
                                 x \in {Empty, Text_blank, Text_o}}
    \cup {<<"SAVE_SETTINGS", TRUE, [provider |-> p, apiKey |-> k], Empty>> :
             p \in Providers \cup {"unset"}, k \in ApiKeys}

\* the runs of a handler the page specification distinguishes
PagePaths == {"notok", "text", "blank"}

\* the user's selection and the events of the mounted modals that send
\* nothing
NextControls ==
    \/ \E r \in Ranges \cup {NoRange} : UserSelect(r)
    \/ EscapeKey
    \/ \E i \in 1 .. MaxModals : BackdropClick(i)
    \/ \E i \in 1 .. MaxModals : BodyClick(i)
    \/ \E i \in 1 .. MaxModals : CloseClick(i)
    \/ \E i \in 1 .. MaxModals : AcceptClick(i)

\* the Page Agent and its request/response operations, every coordinator
\* handler taken in one step
Next ==
    \/ NextControls
    \/ HandleTextSelection
    \/ MouseDownOutsideMenu
    \/ MenuRephraseClick
    \/ MenuSummarizeClick
    \/ MenuAskAIClick
    \/ ResetProcessingFlag
    \/ \E i \in 1 .. MaxModals : RetryClick(i)
    \/ \E e \in ExchIds : RequestTimeout(e)
    \/ \E e \in ExchIds, path \in PagePaths : CoordinatorAnswers(e, path)

Spec == Init /\ [][Next]_vars

\* the push operations, step by step, with the page they act on
NextPush ==
    \/ NextControls
    \/ ContextMenuRephrase
    \/ ContextMenuSummarizePage
    \/ \E k \in {"rephrase", "summary"}, tab \in ActiveTabs : Shortcut(k, tab)
    \/ DeliverToTab
    \/ \E q \in PushIds : SelectionCallback(q)
    \/ \E q \in PushIds : PageContentCallback(q)
    \/ \E q \in PushIds : PushSettingsResolved(q)
    \/ \E q \in PushIds : PushSettingsRejected(q)
    \/ \E q \in PushIds, o \in FetchOutcomes : PushProviderReturns(q, o)
    \/ \E i \in 1 .. MaxModals, throws \in BOOLEAN : CopyClick(i, throws)

SpecPush == Init /\ [][NextPush]_vars

\* the coordinator's runtime message handlers, step by step
NextMessages ==
    \/ \E m \in ExtMessages : ExtSend(m[1], m[2], m[3], m[4])
    \/ \E e \in ExchIds : CoordinatorReceives(e)
    \/ \E e \in ExchIds : SettingsResolved(e)
    \/ \E e \in ExchIds : SettingsRejected(e)
    \/ \E e \in ExchIds, o \in FetchOutcomes : ProviderReturns(e, o)
    \/ \E e \in ExchIds : SaveResolved(e)
    \/ \E e \in ExchIds : SaveRejected(e)
    \/ \E e \in ExchIds : ResponseCallback(e)

SpecMessages == Init /\ [][NextMessages]_vars

\* rephrase operations pushed from the context menu, with Retry and the
\* exchanges it starts
NextRetry ==
    \/ \E r \in Ranges \cup {NoRange} : UserSelect(r)
    \/ \E i \in 1 .. MaxModals : BackdropClick(i)
    \/ \E i \in 1 .. MaxModals : CloseClick(i)
    \/ \E i \in 1 .. MaxModals : AcceptClick(i)
    \/ \E i \in 1 .. MaxModals : RetryClick(i)
    \/ \E e \in ExchIds : RequestTimeout(e)
    \/ \E e \in ExchIds, path \in PagePaths : CoordinatorAnswers(e, path)
    \/ ContextMenuRephrase
    \/ DeliverToTab
    \/ \E q \in PushIds : PushSettingsResolved(q)
    \/ \E q \in PushIds : PushSettingsRejected(q)
    \/ \E q \in PushIds, o \in PagePaths : PushProviderReturns(q, o)

SpecRetry == Init /\ [][NextRetry]_vars

\* the options page: its form, Save and Test
NextOptions ==
    \/ \E field \in FormFields : \E value \in FormValues(field) : EditForm(field, value)
    \/ \E result \in {"ok", "lastError"} : SaveClick(result)
    \/ \E o \in PagePaths : TestClick(o)
    \/ StatusTimeout

SpecOptions == Init /\ [][NextOptions]_vars

\* the results of a provider call the next specifications distinguish
CoordinatorPaths == {"notok", "text"}

\* the floating menu: selection events, the three menu actions and the timers
\* that reset the flag; the requests the actions send are answered
NextMenu ==
    \/ \E r \in Ranges \cup {NoRange} : UserSelect(r)
    \/ HandleTextSelection
    \/ MouseDownOutsideMenu
    \/ EscapeKey
    \/ MenuRephraseClick
    \/ MenuSummarizeClick
    \/ MenuAskAIClick
    \/ ResetProcessingFlag
    \/ \E e \in ExchIds, path \in CoordinatorPaths : CoordinatorAnswers(e, path)

SpecMenu == Init /\ [][NextMenu]_vars

\* a timer set with setTimeout fires: the callback that resets the flag runs
FairMenu == SpecMenu /\ WF_vars(ResetProcessingFlag)

\* request messages that carry a text
TextRequests ==
    {<<"REPHRASE_TEXT", TRUE, Unset, Text_o>>, <<"SUMMARIZE_TEXT", TRUE, Unset, Text_blank>>}

\* the coordinator with a pushed operation and request messages in flight at
\* the same time
NextCoordinator ==
    \/ \E r \in Ranges \cup {NoRange} : UserSelect(r)
    \/ ContextMenuRephrase
    \/ DeliverToTab
    \/ \E q \in PushIds : PushSettingsResolved(q)
    \/ \E q \in PushIds : PushSettingsRejected(q)
    \/ \E q \in PushIds, o \in CoordinatorPaths : PushProviderReturns(q, o)
    \/ \E m \in TextRequests : ExtSend(m[1], m[2], m[3], m[4])
    \/ \E e \in ExchIds : CoordinatorReceives(e)
    \/ \E e \in ExchIds : SettingsResolved(e)
    \/ \E e \in ExchIds : SettingsRejected(e)
    \/ \E e \in ExchIds, o \in CoordinatorPaths : ProviderReturns(e, o)
    \/ \E e \in ExchIds : ResponseCallback(e)

SpecCoordinator == Init /\ [][NextCoordinator]_vars

\* calls of the provider clients, one at a time
NextClient ==
    \/ \E op \in {"rephrase", "summarize"}, text \in InputTexts, settings \in PromptSettings :
          Invoke(op, text, settings)
    \/ \E o \in FetchOutcomes : FetchSettles(o)

SpecClient == Init /\ [][NextClient]_vars

\* The browser dispatches every message it accepted, chrome.storage calls
\* every callback it was given, and a fetch settles: each pending handler
\* step is eventually taken.
FairMessages ==
    /\ SpecMessages
    /\ \A e \in ExchIds :
          /\ WF_vars(CoordinatorReceives(e))
          /\ WF_vars(SettingsResolved(e) \/ SettingsRejected(e))
          /\ WF_vars(\E o \in FetchOutcomes : ProviderReturns(e, o))
          /\ WF_vars(SaveResolved(e) \/ SaveRejected(e))

\* ------------------------------------------------------------- properties
\* the state of the modal of kind k: that of the first mounted one, Idle when
\* none is mounted
KindState(ms, k) == IF FirstIdx(ms, k) = 0 THEN "Idle" ELSE ms[FirstIdx(ms, k)].state

\* the step settles the page's promise of exchange e (response or timeout)
Settles(e) == exch[e].timer /\ ~exch'[e].timer

\* number of queued messages of operation q
QueuedOf(queue, q) == Cardinality({i \in 1 .. Len(queue) : queue[i].op = q})

InHandler(p) == p.status \in {"getSettings", "provider"}

\* C1: in every reachable state at most one modal element is mounted.
AtMostOneModal == Len(modals) <= 1

\* C2: every message the runtime listener is called with gets exactly one
\* sendResponse: never more than one call, a finished handler has made one,
\* and every dispatched message is eventually answered.
ExactlyOneResponse ==
    /\ [](\A e \in ExchIds :
            /\ exch[e].nResp <= 1
            /\ (exch[e].status = "done" <=> exch[e].nResp = 1))
    /\ \A e \in ExchIds : (exch[e].status = "sent") ~> (exch[e].status = "done")

\* C2, witness: a handler answered once on the missing-payload path
AnsweredMissingPayload ==
    \E e \in ExchIds :
        /\ exch[e].status = "done"
        /\ exch[e].nResp = 1
        /\ ~exch[e].hasPayload
        /\ exch[e].resp.error = "Cannot read properties of undefined"

ResultAndErrorOnlyFromLoading ==
    [][\A k \in Kinds :
          (KindState(modals', k) \in {"Result", "Error"}
           /\ KindState(modals', k) # KindState(modals, k))
          => KindState(modals, k) = "Loading"]_vars

\* C5: a modal in Loading is converted to Error by a client-side timeout,
\* so every mounted Loading modal has an armed timeout of an operation of
\* its kind.
LoadingHasArmedTimeout ==
    \A i \in 1 .. Len(modals) :
        modals[i].state = "Loading"
        => \E e \in ExchIds : exch[e].timer /\ KindOfType(exch[e].type) = modals[i].kind

\* C6: a response or timeout that lands while no modal of its kind is mounted
\* mounts no modal and changes none.
LateOutcomeIgnored ==
    [][\A e \in ExchIds :
          (Settles(e) /\ FirstIdx(modals, KindOfType(exch[e].type)) = 0)
          => modals' = modals]_vars

\* C7: a rephrase response or timeout that lands while a rephrase modal is
\* mounted is rendered into that modal, whichever operation opened it: the
\* modal leaves Loading and shows the original text of the operation that
\* landed; every later landing overwrites it the same way.
LateResponseRendered ==
    [][\A e \in ExchIds :
          (Settles(e) /\ exch[e].type = "REPHRASE_TEXT"
           /\ FirstIdx(modals, "rephrase") # 0)
          => LET i == FirstIdx(modals, "rephrase") IN
                /\ Len(modals') >= i
                /\ modals'[i].kind = "rephrase"
                /\ modals'[i].state \in {"Result", "Error"}
                /\ modals'[i].originalText = exch[e].text]_vars

\* C7, witness: the modal opened for the text of a still pending operation
\* shows the result of another operation for another text
StaleResultShown ==
    \E e \in ExchIds :
        /\ exch[e].timer
        /\ exch[e].type = "REPHRASE_TEXT"
        /\ Len(modals) = 1
        /\ modals[1].kind = "rephrase"
        /\ modals[1].state = "Result"
        /\ modals[1].openText = exch[e].text
        /\ modals[1].originalText # exch[e].text

\* C8: wherever a rephrase modal is in Result, its Accept listener puts the
\* output into the held selection's range, leaves no rephrase modal mounted
\* and leaves the held selection none.
AcceptAlwaysApplies ==
    \A i \in 1 .. Len(modals) :
        (modals[i].kind = "rephrase" /\ modals[i].state = "Result")
        => /\ currentSelection # NoSelection
           /\ AcceptDoc(docText, currentSelection, modals[i])[currentSelection.range]
                 = modals[i].output
           /\ FirstIdx(AcceptModals(modals, currentSelection, modals[i]), "rephrase") = 0
           /\ AcceptSelection(currentSelection, modals[i]) = NoSelection

\* C9: a click on the backdrop or on the close button of a rephrase modal
\* leaves no rephrase modal mounted and the held selection none.
DismissClearsSelection ==
    [][\A i \in 1 .. MaxModals :
          ((BackdropClick(i) \/ CloseClick(i)) /\ modals[i].kind = "rephrase")
          => (currentSelection' = NoSelection /\ FirstIdx(modals', "rephrase") = 0)]_vars

\* C10: a Retry click on a rephrase modal leaves the held selection as it
\* was.
RetryKeepsSelection ==
    [][\A i \in 1 .. MaxModals :
          (RetryClick(i) /\ modals[i].kind = "rephrase")
          => currentSelection' = currentSelection]_vars

\* C11: for every mounted modal in Result or Error, of any kind, a click on
\* its Retry control acts: afterwards the modal of that kind is in Loading
\* and the request sent has the kind's type and carries the original text
\* the modal was showing.
RetryReentersLoading ==
    \A i \in 1 .. Len(modals) :
        modals[i].state \in {"Result", "Error"}
        => LET m == modals[i] IN
              /\ Truthy(m.originalText)
              /\ KindState(RetryHandlerModals(modals, m.kind, m.originalText), m.kind)
                    = "Loading"
              /\ PageRequest(RetryType(m.kind), m.originalText).type = RetryType(m.kind)
              /\ PageRequest(RetryType(m.kind), m.originalText).text = m.originalText

\* the modal of kind k shows an error, with Retry and without Accept or Copy
ErrorShown(ms, k) ==
    LET i == FirstIdx(ms, k) IN
    /\ i # 0
    /\ ms[i].state = "Error"
    /\ ms[i].error # ""
    /\ "retry" \in Controls(ms[i])
    /\ "accept" \notin Controls(ms[i])
    /\ "copy" \notin Controls(ms[i])

AcceptOnlyInRephraseResult ==
    \A i \in 1 .. Len(modals) :
        "accept" \in Controls(modals[i])
        => (modals[i].kind = "rephrase" /\ modals[i].state = "Result")

\* C13, witness: a rephrase modal in Result offers Accept while an explain
\* modal in Error beside it does not
AcceptBesideExplainError ==
    /\ Len(modals) = 2
    /\ \E i, j \in 1 .. 2 :
          /\ modals[i].kind = "rephrase"
          /\ modals[i].state = "Result"
          /\ "accept" \in Controls(modals[i])
          /\ modals[j].kind = "askai"
          /\ modals[j].state = "Error"
          /\ "accept" \notin Controls(modals[j])

\* C14: the coordinator's handling of an ASK_AI request of the page creates
\* a provider client, makes one call on it and answers the request once,
\* with the result of that call.
AskAIReachesProvider ==
    [][\A e \in ExchIds : \A path \in PagePaths :
          (CoordinatorAnswers(e, path) /\ exch[e].type = "ASK_AI")
          => LET m == HandlerRun(exch[e], stored, path) IN
                /\ m.client # ""
                /\ m.nResp = 1
                /\ m.resp = ClientCall(m.client, path)]_vars

\* C15: a provider call is made only for an input text that is not empty
\* after trimming, whether the operation was started by a request message or
\* by a push trigger.
EmptyInputNeverReachesProvider ==
    /\ \A e \in ExchIds : exch[e].status = "provider" => Truthy(Trim(exch[e].text))
    /\ \A q \in PushIds : push[q].status = "provider" => Truthy(Trim(push[q].text))

\* C16: a provider call (the client's fetch) is in flight only for settings
\* whose credential for the active provider is not empty, for request
\* messages and for push-triggered operations alike.
EmptyCredentialFailsFast ==
    /\ \A e \in ExchIds : exch[e].status = "provider" => Truthy(exch[e].apiKey)
    /\ \A q \in PushIds : push[q].status = "provider" => Truthy(push[q].apiKey)

\* C17: a message whose type handleMessage has no case for is answered in
\* the step that dispatches it, once, with {success: false, error: 'Unknown
\* message type'}; its handler never reads settings, saves settings or calls
\* the provider; and every such message sent is eventually answered.
UnknownTypeAnswered ==
    /\ [][\A e \in ExchIds :
            (CoordinatorReceives(e) /\ exch[e].type \notin RecognizedTypes)
            => /\ exch'[e].status = "done"
               /\ exch'[e].nResp = 1
               /\ exch'[e].resp = Failure("Unknown message type")
               /\ stored' = stored]_vars
    /\ [](\A e \in ExchIds :
            exch[e].type \notin RecognizedTypes
            => exch[e].status \in {"free", "sent", "done"})
    /\ \A e \in ExchIds :
          (exch[e].status = "sent" /\ exch[e].type \notin RecognizedTypes)
          ~> (exch[e].status = "done" /\ exch[e].resp.error = "Unknown message type")

\* C17, witness: a message of a type nobody defines has been answered
UnknownTypeAnswer ==
    \E e \in ExchIds :
        /\ exch[e].type = "PING"
        /\ exch[e].status = "done"
        /\ exch[e].nResp = 1
        /\ exch[e].resp = Failure("Unknown message type")

\* message i of the queue is an UPDATE of operation q
IsUpdateOf(queue, i, q) ==
    queue[i].op = q /\ queue[i].type \in {"UPDATE_MODAL", "UPDATE_SUMMARY_MODAL"}

\* message i of the queue is a loading SHOW of operation q
IsLoadingShowOf(queue, i, q) ==
    /\ queue[i].op = q
    /\ queue[i].type \in {"SHOW_MODAL", "SHOW_SUMMARY_MODAL"}
    /\ queue[i].data.isLoading

RephraseShortcutStartsOne ==
    [][/\ \A tab \in ActiveTabs :
            Shortcut("rephrase", tab)
            => IF tab = "none" THEN UNCHANGED vars
               ELSE /\ Len(toTab') = Len(toTab) + 1
                    /\ toTab'[Len(toTab')].type = "GET_SELECTION"
                    /\ \A q \in PushIds : InHandler(push'[q]) = InHandler(push[q])
       /\ \A q \in PushIds :
            (SelectionCallback(q) /\ push[q].kind = "rephrase")
            => IF Truthy(push[q].text)
               THEN /\ toTab' = Append(toTab, LoadingShow(q, "rephrase", push[q].text))
                    /\ push'[q].status = "getSettings"
                    /\ push'[q].text = push[q].text
                    /\ push'[q].kind = "rephrase"
                    /\ \A r \in PushIds \ {q} : push'[r] = push[r]
               ELSE /\ toTab' = toTab
                    /\ push'[q].status = "free"
                    /\ \A r \in PushIds : InHandler(push'[r]) = InHandler(push[r])
                    /\ stored' = stored /\ exch' = exch]_vars

\* C19, witness: the operation the shortcut started for the reported
\* selection is running and its loading SHOW is the last message sent
ShortcutRephraseStarted ==
    \E q \in PushIds :
        /\ push[q].trigger = "shortcut"
        /\ push[q].kind = "rephrase"
        /\ push[q].status = "getSettings"
        /\ Truthy(push[q].text)
        /\ toTab # <<>>
        /\ toTab[Len(toTab)] = LoadingShow(q, "rephrase", push[q].text)

\* C20: in the summarize shortcut's GET_SELECTION callback a selection that
\* is not blank starts the summary of that text and no page content is asked
\* for, while a blank one makes the coordinator send GET_PAGE_CONTENT and
\* start nothing; in the GET_PAGE_CONTENT callback page content that is not
\* blank starts the summary of the page content, while blank content makes
\* the coordinator send one SHOW_SUMMARY_MODAL carrying an error and start
\* nothing; the page mounts that message as a summary modal in Error.
SummarizeShortcutFallsBack ==
    [][/\ \A q \in PushIds :
            (SelectionCallback(q) /\ push[q].kind = "summary")
            => IF Truthy(Trim(push[q].text))
               THEN /\ toTab' = Append(toTab, LoadingShow(q, "summary", push[q].text))
                    /\ push'[q].status = "getSettings"
                    /\ push'[q].text = push[q].text
               ELSE /\ toTab' = Append(toTab, Msg("GET_PAGE_CONTENT", q, NoData))
                    /\ ~InHandler(push'[q])
       /\ \A q \in PushIds :
            (PageContentCallback(q) /\ push[q].trigger = "shortcut")
            => IF Truthy(Trim(push[q].text))
               THEN /\ toTab' = Append(toTab, LoadingShow(q, "summary", push[q].text))
                    /\ push'[q].status = "getSettings"
                    /\ push'[q].text = push[q].text
               ELSE /\ Len(toTab') = Len(toTab) + 1
                    /\ SubSeq(toTab', 1, Len(toTab)) = toTab
                    /\ toTab'[Len(toTab')].type = "SHOW_SUMMARY_MODAL"
                    /\ toTab'[Len(toTab')].data.error # ""
                    /\ ~toTab'[Len(toTab')].data.isLoading
                    /\ push'[q].status = "free"
       /\ (DeliverToTab /\ toTab # <<>>
           /\ Head(toTab).type = "SHOW_SUMMARY_MODAL"
           /\ Head(toTab).data.error # "")
          => (KindState(modals', "summary") = "Error"
              /\ \A q \in PushIds : InHandler(push'[q]) = InHandler(push[q]))]_vars

\* C20, witness: after an empty selection the shortcut's operation runs for
\* the page content
ShortcutSummarizesPage ==
    \E q \in PushIds :
        /\ push[q].trigger = "shortcut"
        /\ push[q].kind = "summary"
        /\ push[q].status = "getSettings"
        /\ push[q].text = Text_page
        /\ toTab # <<>>
        /\ toTab[Len(toTab)] = LoadingShow(q, "summary", Text_page)

\* C21: the UPDATE a push-triggered operation sends for a failed provider
\* call carries the client's error message unchanged, and the modal the page
\* updates from an UPDATE carrying an error shows that error unchanged.
ProviderErrorShownVerbatim ==
    [][/\ \A q \in PushIds : \A o \in FetchOutcomes :
            (PushProviderReturns(q, o) /\ ~ClientCall(push[q].client, o).success)
            => toTab'[Len(toTab')].data.error = ClientCall(push[q].client, o).error
       /\ (DeliverToTab /\ toTab # <<>>
           /\ Head(toTab).type \in {"UPDATE_MODAL", "UPDATE_SUMMARY_MODAL"}
           /\ Head(toTab).data.error # ""
           /\ FirstIdx(modals, IF Head(toTab).type = "UPDATE_MODAL"
                               THEN "rephrase" ELSE "summary") # 0)
          => LET k == IF Head(toTab).type = "UPDATE_MODAL" THEN "rephrase" ELSE "summary"
             IN modals'[FirstIdx(modals', k)].error = Head(toTab).data.error]_vars

\* C22: a provider client call always returns a result (the handler answers
\* once), and a failed fetch is classified by its cause: a rejected fetch is
\* reported as 'Network error: <cause>', a status that is not ok as
\* '<Provider> API Error: <status> <statusText>', and a parsed body without
\* usable output (no output list, an empty list, no output text) as
\* 'No response from <Provider> API'.
ClientClassifiesFailures ==
    [][\A e \in ExchIds : \A o \in FetchOutcomes :
          ProviderReturns(e, o)
          => LET r == exch'[e].resp
                 c == exch[e].client
             IN /\ exch'[e].nResp = 1
                /\ (o = "reject" => r = Failure("Network error: fetch failed"))
                /\ (o = "notok" => r = Failure(ApiError(c)))
                /\ (o \in {"nolist", "emptylist", "nocontent"}
                    => r = Failure(NoResponse(c)))]_vars

NoMenuWithModal == ~(selectionContextMenu # NoSelection /\ modals # <<>>)

\* C25: for every mounted modal, in Loading, Result or Error and of any
\* kind, a click on its backdrop removes it from the document, its close
\* button has a listener and a click on it removes it from the document, and
\* a click inside its content leaves the mounted modals as they are.
CloseAndBackdropUnmount ==
    \A i \in 1 .. Len(modals) :
        /\ Len(modals) - Len(ClickOnModal(modals, i, "backdrop")) >= i
        /\ modals[i].nButton >= 1
        /\ Len(modals) - Len(hideModalTimes(modals, modals[i].nButton)) >= i
        /\ ClickOnModal(modals, i, "content") = modals

\* C26: the delivery of GET_SELECTION answers the waiting operation in the
\* same step, once, with the trimmed text of the live selection, or with the
\* empty text when there is no range or the selected text is empty or white
\* space only; the step changes nothing of the page (held selection, modals,
\* floating menu, document, live selection).
GetSelectionAnswered ==
    [][(DeliverToTab /\ toTab # <<>> /\ Head(toTab).type = "GET_SELECTION")
       => LET q == Head(toTab).op IN
             /\ push[q].status = "askSel"
             /\ push'[q].status = "selResp"
             /\ push'[q].text =
                   IF liveRange = NoRange THEN Empty
                   ELSE IF Trim(docText[liveRange]) = Empty THEN Empty
                   ELSE Trim(docText[liveRange])
             /\ QueuedOf(toTab', q) = QueuedOf(toTab, q) - 1
             /\ UNCHANGED pageVars]_vars

\* C26, witness: the answer holds the trimmed text of a live selection that
\* has white space around its words
TrimmedSelectionReported ==
    \E q \in PushIds :
        /\ push[q].status = "selResp"
        /\ liveRange = "r1"
        /\ docText["r1"] = Text_a
        /\ push[q].text = <<"a">>

\* C27: getSettings() never fails: every handler that awaits it goes on with
\* the defaults merged with what is persisted, whatever the storage call
\* reported.
GetSettingsNeverFails ==
    [][\A e \in ExchIds :
          (exch[e].status = "getSettings" /\ exch'[e] # exch[e])
          => exch'[e] = afterSettingsResolved(exch[e], stored)]_vars

\* C28: a save that succeeds stores exactly the configuration x it was given
\* and answers success; what is stored changes in no other step; and every
\* read of the settings that succeeds yields what is stored merged over the
\* defaults (a persisted field wins, a missing provider is the default one),
\* in the answer to GET_SETTINGS and in the client and credential a handler
\* goes on with.  So a read after a successful save of x, with no other save
\* in between, yields x merged over the defaults.
SaveThenGetRoundTrip ==
    [][/\ \A e \in ExchIds :
            SaveResolved(e)
            => (stored' = exch[e].setting /\ exch'[e].resp.success)
       /\ stored' # stored
          => \E e \in ExchIds :
                /\ exch[e].status = "saveSettings"
                /\ exch'[e].status = "done"
                /\ exch'[e].resp.success
                /\ exch[e].type = "SAVE_SETTINGS"
       /\ \A e \in ExchIds :
            SettingsResolved(e)
            => LET provider == IF stored.provider = "unset" THEN "anthropic"
                               ELSE stored.provider
               IN /\ exch[e].type = "GET_SETTINGS"
                     => /\ exch'[e].resp.success
                        /\ exch'[e].respSettings.provider = provider
                        /\ exch'[e].respSettings.apiKey = stored.apiKey
                  /\ exch'[e].status = "provider"
                     => /\ exch'[e].client = provider
                        /\ exch'[e].apiKey = stored.apiKey]_vars

\* C28, witness: a configuration without a provider was saved and
\* GET_SETTINGS has answered it merged over the defaults
PartialSettingsReadBack ==
    \E e \in ExchIds :
        /\ stored = [provider |-> "unset", apiKey |-> Text_key]
        /\ exch[e].type = "GET_SETTINGS"
        /\ exch[e].status = "done"
        /\ exch[e].resp.success
        /\ exch[e].respSettings = [provider |-> "anthropic", apiKey |-> Text_key]

\* C29: for every configuration with a known provider, validateSettings
\* returns isValid false with the provider's 'API key is required' message
\* among its errors when the credential of the active provider is empty or
\* white space only, and returns isValid true with no errors when that
\* credential and the provider's model are both non-empty (neither empty nor
\* white space only).  It changes no state: a Save or Test click on a form
\* whose credential is empty or white space only shows the errors, with that
\* message among them, and leaves the stored settings, the controller's
\* settings and the form as they were.
ValidateSettingsChecksCredential ==
    /\ [](\A c \in Configs :
            c.provider \in Providers
            => LET v == validateSettings(c) IN
                  /\ Trim(ActiveKey(c)) = Empty
                     => /\ ~v.isValid
                        /\ \E i \in 1 .. Len(v.errors) : v.errors[i] = KeyRequired(c.provider)
                  /\ (Trim(ActiveKey(c)) # Empty /\ Trim(ActiveModel(c)) # Empty)
                     => (v.isValid /\ v.errors = <<>>))
    /\ [][((\E result \in {"ok", "lastError"} : SaveClick(result))
            \/ (\E o \in PagePaths : TestClick(o)))
          => LET c == getFormData(options.form, options.settings) IN
                Trim(ActiveKey(c)) = Empty
                => /\ stored' = stored
                   /\ options'.settings = options.settings
                   /\ options'.form = options.form
                   /\ options'.status.type = "error"
                   /\ \E i \in 1 .. Len(options'.status.messages) :
                         options'.status.messages[i] = KeyRequired(c.provider)]_vars

\* C29, witness: Save or Test was clicked on a form whose Claude credential
\* is white space only, and the status line shows that the key is required
BlankKeyRejected ==
    /\ options.form.provider = "anthropic"
    /\ options.form.claudeApiKey = Text_blank
    /\ options.status = ShowStatus(<<KeyRequired("anthropic")>>, "error")
    /\ stored = Unset

\* C30: wherever a summary or explain modal is in Result, its Copy listener
\* puts the output text without its tags on the clipboard, when the
\* clipboard API accepts the text and, through the textarea, when it throws.
CopyWritesStrippedText ==
    \A i \in 1 .. Len(modals) :
        (modals[i].kind \in {"summary", "askai"} /\ modals[i].state = "Result")
        => /\ CopyHandler(clipboard, modals[i], FALSE) = StripTags(modals[i].output)
           /\ CopyHandler(clipboard, modals[i], TRUE) = StripTags(modals[i].output)

\* C31: the client a handler calls is chosen from the provider tag of the
\* settings it has just read and from nothing else: the OpenAI client for
\* 'openai', the Claude client for 'anthropic' (the default when no tag is
\* persisted); the settings are read at this step, so the tag saved last
\* decides, and the failure the client reports names its own provider.
ClientFollowsConfiguredProvider ==
    [][\A e \in ExchIds :
          /\ (exch[e].status = "getSettings" /\ exch'[e].status = "provider")
             => exch'[e].client =
                   (CASE stored.provider = "openai" -> "openai"
                      [] stored.provider = "anthropic" -> "anthropic"
                      [] OTHER -> DefaultProvider)
          /\ (exch[e].status = "provider" /\ exch'[e].status = "done"
              /\ ~exch'[e].resp.success
              /\ exch'[e].resp.error \in {"OpenAI API Error: 401 Unauthorized",
                                          "No response from OpenAI API"})
             => exch[e].client = "openai"
          /\ (exch[e].status = "provider" /\ exch'[e].status = "done"
              /\ ~exch'[e].resp.success
              /\ exch'[e].resp.error \in {"Claude API Error: 401 Unauthorized",
                                          "No response from Claude API"})
             => exch[e].client = "anthropic"]_vars

\* C31, witness: an operation that read the settings before 'openai' was
\* saved holds the Claude client, and the operation started after the save
\* holds the OpenAI client
ProviderChangeHonoured ==
    /\ stored.provider = "openai"
    /\ exch[1].status = "provider"
    /\ exch[1].client = "anthropic"
    /\ exch[2].status = "provider"
    /\ exch[2].client = "openai"

\* text part occurs in text s / s ends with part
HasPart(s, part) ==
    \E a \in 1 .. Len(s) + 1 :
       a + Len(part) - 1 <= Len(s) /\ SubSeq(s, a, a + Len(part) - 1) = part

EndsWith(s, part) ==
    Len(part) <= Len(s) /\ SubSeq(s, Len(s) - Len(part) + 1, Len(s)) = part

\* the request has a message whose content holds part
Carries(request, part) == \E i \in 1 .. Len(request) : HasPart(request[i].content, part)

\* the user message of a request: its last message
UserContent(request) == request[Len(request)].content

\* C32: a rephrase call of either client hands fetch a request which, when
\* customPrompt is empty, carries the default rephrase instruction and whose
\* user message ends with 'Please rephrase the following text: ' followed by
\* the input; when customPrompt is not empty the request carries the custom
\* prompt and not the default instruction, and its user message ends with the
\* input and has no 'Please rephrase the following text: ' in it.
RephraseRequestCarriesPrompt ==
    (invocation.status # "idle" /\ invocation.op = "rephrase")
    => LET req == invocation.request
           custom == invocation.settings.customPrompt
       IN /\ Len(req) >= 1
          /\ req[Len(req)].role = "user"
          /\ custom = Empty
             => /\ Carries(req, DEFAULT_SYSTEM_PROMPT)
                /\ EndsWith(UserContent(req), RephrasePrefix \o invocation.text)
          /\ custom # Empty
             => /\ Carries(req, custom)
                /\ ~Carries(req, DEFAULT_SYSTEM_PROMPT)
                /\ EndsWith(UserContent(req), invocation.text)
                /\ ~Carries(req, RephrasePrefix)

\* C32, witness: a rephrase call of the Claude client with a custom prompt
\* has sent the custom prompt and the bare input in its one user message
CustomPromptSentByClaude ==
    /\ invocation.status = "fetching"
    /\ invocation.op = "rephrase"
    /\ invocation.client = "anthropic"
    /\ invocation.settings.customPrompt = Text_prompt
    /\ invocation.text = Text_o
    /\ invocation.request =
          <<[role |-> "user", content |-> <<"c", "\n", "\n", "o", " ">>]>>

\* C33: whenever a rephrase modal is in Result and a Selection is held, the
\* held Selection is the one captured for the operation whose result the
\* modal displays: its text is the modal's original text.
HeldSelectionIsOfShownResult ==
    \A i \in 1 .. Len(modals) :
       (modals[i].kind = "rephrase" /\ modals[i].state = "Result"
        /\ currentSelection # NoSelection)
       => currentSelection.text = modals[i].originalText

\* C34: a click on Retry (a step that puts requests in flight while the
\* floating menu stays as it is: the menu's own buttons remove it) sends
\* exactly one request message, for a modal of any kind.
RetryClickSendsOneRequest ==
    [][(selectionContextMenu' = selectionContextMenu
        /\ NumFree(exch') < NumFree(exch))
       => NumFree(exch') = NumFree(exch) - 1]_vars

\* C35: a mounted modal in Loading, of any kind, has no Accept, Retry or Copy
\* control in its template and no listener on an action button, so no request
\* can be sent from it.
LoadingHasNoActionControl ==
    \A i \in 1 .. Len(modals) :
       modals[i].state = "Loading"
       => /\ Controls(modals[i]) \cap {"accept", "retry", "copy"} = {}
          /\ modals[i].nButton = 0

\* C35, witness: a summary modal is in Loading while its request is with the
\* coordinator
SummaryLoadingDuringRequest ==
    /\ \E i \in 1 .. Len(modals) :
          modals[i].kind = "summary" /\ modals[i].state = "Loading"
    /\ \E e \in ExchIds : exch[e].status = "sent" /\ exch[e].type = "SUMMARIZE_TEXT"

\* C36: for each exchange of the page, the response and the timeout exclude
\* each other: a response that arrives after the timeout has fired changes no
\* modal; the callback of a response disarms the timeout, so no timeout is
\* armed for an answered exchange; and a timeout is armed only when a new
\* request is sent, never again for the same exchange.
ResponseOrTimeoutNotBoth ==
    [][\A e \in ExchIds :
          /\ (exch[e].status # "free" /\ exch[e].sender = "page" /\ ~exch[e].timer
              /\ exch'[e].status = "free")
             => (modals' = modals /\ escPersistent' = escPersistent
                 /\ escOnce' = escOnce)
          /\ exch'[e].status = "free" => ~exch'[e].timer
          /\ (~exch[e].timer /\ exch'[e].timer) => exch[e].status = "free"]_vars

\* C36, witness: the rephrase modal still shows the timeout's error after the
\* response of the timed-out exchange has arrived (no exchange is left)
TimeoutErrorKeptAfterResponse ==
    /\ \A e \in ExchIds : exch[e].status = "free"
    /\ \E i \in 1 .. Len(modals) :
          /\ modals[i].kind = "rephrase"
          /\ modals[i].state = "Error"
          /\ modals[i].error = "Request timed out. Please try again."

\* operations of the coordinator the step acts on
ChangedExch == {e \in ExchIds : exch'[e] # exch[e]}

ChangedPush == {q \in PushIds : push'[q] # push[q]}

MenuActionBlocksReentry ==
    /\ [][(flagTimers' > flagTimers)
          => (isProcessingMenuAction' /\ selectionContextMenu' = NoSelection
              /\ liveRange' = NoRange)]_vars
    /\ [][(isProcessingMenuAction /\ selectionContextMenu = NoSelection)
          => selectionContextMenu' = NoSelection]_vars
    /\ (isProcessingMenuAction ~> ~isProcessingMenuAction)

\* C38, witness: the user has selected text again while the flag of a menu
\* action is still set, and there is no menu
ReselectedWhileProcessing ==
    /\ isProcessingMenuAction
    /\ flagTimers = 1
    /\ getSelection(liveRange, docText) # NoSelection
    /\ selectionContextMenu = NoSelection

\* C39: a result of a provider client that reports success carries an output
\* text that is not empty; an output of white space only is reported as the
\* failure 'No response from <provider> API'.
SuccessCarriesOutput ==
    (invocation.status = "returned" /\ invocation.result.success)
    => Truthy(invocation.result.text)

====
